---- MODULE Spec2Model ----
(***************************************************************************)
(* The Project Store of cli-project-manager (src/src/project.rs):          *)
(* ProjectManager over a root directory, with the filesystem it reads and  *)
(* writes.  One action per public operation; every filesystem call that    *)
(* can fail is given both outcomes.                                        *)
(***************************************************************************)
EXTENDS Integers, Sequences, FiniteSets, TLC

\* ------------------------------------------------------------------ bounds
\* Names callers pass to create/rename/modify (Rust Strings, hence UTF-8).
Names == {"p0", "p1"}
\* The new names callers pass to rename: those, and one no project has yet.
NewNames == Names \cup {"p2"}
\* A directory name under the root that is not valid UTF-8 (only the disk has it).
RawName == "raw"
DiskNames == NewNames \cup {RawName}
\* Tags, and the tag sets callers pass.
TagUniverse == {"t0", "t1"}
TagSets == {{}, {"t0"}}
\* The clock runs from 0 to MaxTime nanoseconds, in steps of ClockStep.
MaxTime == 100
ClockStep == 50
\* No more than MaxGitLines lines are ever appended to one .gitignore.
MaxGitLines == 1
\* After its first load, a run makes no more than MaxCalls calls that load the
\* store again or write to the disk or the store.
MaxCalls == 2
\* The environment makes no more than MaxFaults filesystem calls fail that
\* could have succeeded.
MaxFaults == 1

\* ------------------------------------------------------- program constants
\* Option::None of ProjectData.created / ProjectData.accessed, and of a
\* filesystem time the platform does not report.
NoTime == -1
\* SystemTime::UNIX_EPOCH
UnixEpoch == 0
\* OffsetDateTime::now_utc() has nanosecond resolution: 9 decimal digits.
ClockDigits == 9
\* TIME_CONFIG: TimePrecision::Second { decimal_digits: 7 }
DecimalDigits == 7

RECURSIVE Pow10(_)
Pow10(n) == IF n = 0 THEN 1 ELSE 10 * Pow10(n - 1)

\* What a timestamp is after serialisation with TIME_FORMAT and parsing back:
\* the digits of the second's fraction beyond DecimalDigits are cut off.
TimeFormat(t) ==
    LET unit == Pow10(ClockDigits - DecimalDigits)
    IN  (t \div unit) * unit

\* ------------------------------------------------------------------- disk
\* A sidecar file <dir>/.project.json.  st: "none" (no such entry),
\* "unreadable" (the entry exists, read_to_string fails), "garbage" (read,
\* not a ProjectData in JSON), "valid" (ProjectData; created/accessed may be
\* NoTime).
NoSidecar == [st |-> "none", created |-> NoTime, accessed |-> NoTime, tags |-> {}]
BadSidecar(st) == [st |-> st, created |-> NoTime, accessed |-> NoTime, tags |-> {}]
ValidSidecar(c, a, tgs) == [st |-> "valid", created |-> c, accessed |-> a, tags |-> tgs]

\* An entry of the root directory.  kind: "none", "error" (read_dir yields
\* Err for it), "file", "dir".  listable: read_dir of the child succeeds.
\* metaOk: metadata() of the child succeeds.  btime/atime: the creation and
\* access time the filesystem reports (NoTime: not supported).  gitignore:
\* -1 no .gitignore, else the number of lines it holds.
NoEntry ==
    [kind |-> "none", listable |-> TRUE, metaOk |-> TRUE, btime |-> NoTime,
     atime |-> NoTime, sidecar |-> NoSidecar, gitignore |-> -1]
OtherEntry(k) == [NoEntry EXCEPT !.kind = k]
DirEntry(sc) ==
    [kind |-> "dir", listable |-> TRUE, metaOk |-> TRUE, btime |-> UnixEpoch,
     atime |-> UnixEpoch, sidecar |-> sc, gitignore |-> -1]
\* fs::create_dir at time t
NewDir(t) == [DirEntry(NoSidecar) EXCEPT !.btime = t, !.atime = t]

Utf8(n) == n # RawName

VARIABLES
    rootState,  \* the root path: "missing", "unreadable" (read_dir fails), "ok"
    disk,       \* DiskNames -> entry: the children of the root
    clock,      \* the last value OffsetDateTime::now_utc() returned
    phase,      \* "unloaded", "ready" (a ProjectManager exists), "aborted"
                \* (panic), "consumed" (exec took the ProjectManager)
    projects,   \* ProjectManager.projects: sequence of Project
    tags,       \* ProjectManager.tags
    errors,     \* the Vec<ProjectError> of the last load, as error kinds
    res,        \* the last call: operation, arguments, result
    faults,     \* the number of filesystem calls the environment has made fail
    calls,      \* the number of calls so far that MaxCalls bounds
    clean,      \* the store was loaded from an empty existing root and every
                \* call since that wrote to the disk or the store returned Ok
    rootUtf8,   \* the root path is valid UTF-8
    listed,     \* the Vec<Project> the last get_projects returned
    events      \* the steps the last exec completed, in order

vars == <<rootState, disk, clock, phase, projects, tags, errors, res, calls,
          faults, clean, rootUtf8, listed, events>>

Project(n, c, a, tgs) == [name |-> n, created |-> c, accessed |-> a, tags |-> tgs]

\* op(name, dst | tgs) returned status; stage: the step that decided it;
\* fault: the environment made a filesystem call fail that could have succeeded.
Result(op, name, dst, tgs, status, stage, fault) ==
    [op |-> op, name |-> name, dst |-> dst, tgs |-> tgs, status |-> status,
     stage |-> stage, fault |-> fault]

ProjectNames(projs) == {projs[i].name : i \in 1..Len(projs)}
UnionTags(projs) == UNION {projs[i].tags : i \in 1..Len(projs)}

\* ------------------------------------------------------------------- load
EmptyLoadTagged == [projects |-> <<>>, tags |-> {"t0"}, errors |-> <<>>, panic |-> FALSE]
EmptyLoad == [projects |-> <<>>, tags |-> {}, errors |-> <<>>, panic |-> FALSE]

\* One iteration of the loop over read_dir(root).
LoadEntry(n, e, acc) ==
    IF e.kind = "none" THEN acc
    ELSE IF e.kind = "error"
        THEN [acc EXCEPT !.errors = Append(@, "DirectoryRead")]
    ELSE IF e.kind # "dir" THEN acc
    ELSE IF ~e.listable THEN [acc EXCEPT !.panic = TRUE]
    ELSE IF e.sidecar.st = "none" THEN acc
    ELSE IF e.sidecar.st = "unreadable"
        THEN [acc EXCEPT !.errors = Append(@, "ProjectRead")]
    ELSE IF ~Utf8(n)
        THEN [acc EXCEPT !.errors = Append(@, "DirectoryRead")]
    ELSE IF e.sidecar.st = "garbage"
        THEN [acc EXCEPT !.errors = Append(@, "ProjectRead")]
    ELSE IF ~e.metaOk
        THEN [acc EXCEPT !.errors = Append(@, "DirectoryRead")]
    ELSE
        LET default_created == IF e.btime = NoTime THEN UnixEpoch ELSE e.btime
            created == IF e.sidecar.created = NoTime
                       THEN default_created ELSE e.sidecar.created
            accessed == IF e.sidecar.accessed # NoTime THEN e.sidecar.accessed
                        ELSE IF e.atime = NoTime THEN default_created
                        ELSE e.atime
        IN  [acc EXCEPT
                !.tags = @ \cup e.sidecar.tags,
                !.projects = Append(@, Project(n, created, accessed, e.sidecar.tags))]

RECURSIVE LoadEntries(_, _, _)
LoadEntries(d, order, acc) ==
    IF order = <<>> \/ acc.panic THEN acc
    ELSE LoadEntries(d, Tail(order), LoadEntry(Head(order), d[Head(order)], acc))

\* ProjectManager::load on root state rs with children d, read_dir yielding
\* the children in the given order.
LoadDirUnchecked(rs, d, order) == LoadEntries(d, order, EmptyLoad)
LoadDir(rs, d, order) ==
    IF rs # "ok"
    THEN [EmptyLoad EXCEPT !.errors = <<"DirectoryRead">>]
    ELSE LoadEntries(d, order, EmptyLoad)

\* The orders read_dir may yield the children of the root in.
Present(d) == {n \in DiskNames : d[n].kind # "none"}
Orders(d) ==
    {o \in [1..Cardinality(Present(d)) -> Present(d)] :
        \A i, j \in 1..Cardinality(Present(d)) : i # j => o[i] # o[j]}

RootEmpty == rootState = "ok" /\ \A n \in DiskNames : disk[n].kind = "none"

Load ==
    /\ phase # "unloaded" => calls < MaxCalls
    /\ \E order \in Orders(disk) :
        LET r == LoadDir(rootState, disk, order)
        IN  /\ phase' = IF r.panic THEN "aborted" ELSE "ready"
            /\ projects' = IF r.panic THEN <<>> ELSE r.projects
            /\ tags' = IF r.panic THEN {} ELSE r.tags
            /\ errors' = IF r.panic THEN <<>> ELSE r.errors
            /\ res' = Result("load", "", "", {}, IF r.panic THEN "panic" ELSE "Ok",
                             "", FALSE)
            /\ clean' = RootEmpty
            /\ calls' = IF phase = "unloaded" THEN calls ELSE calls + 1
            /\ listed' = <<>>
            /\ events' = <<>>
            /\ UNCHANGED faults
            /\ UNCHANGED <<rootState, disk, clock, rootUtf8>>

\* ------------------------------------------------------------------- init
InitSidecars ==
    {NoSidecar, BadSidecar("unreadable"), BadSidecar("garbage"),
     ValidSidecar(NoTime, NoTime, {"t0"}), ValidSidecar(0, 0, {"t1"})}

InitEntries ==
    {NoEntry, OtherEntry("file"), OtherEntry("error")}
    \cup {DirEntry(sc) : sc \in InitSidecars}
    \cup {[DirEntry(NoSidecar) EXCEPT !.listable = FALSE],
          [DirEntry(ValidSidecar(0, 0, {"t0"})) EXCEPT !.metaOk = FALSE]}

\* The state before the first load, over a root holding the children d.
Start(rs, d) ==
    /\ rootState = rs
    /\ disk = d
    /\ clock = 0
    /\ phase = "unloaded"
    /\ projects = <<>>
    /\ tags = {}
    /\ errors = <<>>
    /\ res = Result("init", "", "", {}, "Ok", "", FALSE)
    /\ calls = 0
    /\ faults = 0
    /\ clean = FALSE
    /\ listed = <<>>
    /\ events = <<>>

\* Any root: every child is any of InitEntries.
InitLoad ==
    \E rs \in {"missing", "unreadable", "ok"}, d \in [DiskNames -> InitEntries] :
        /\ rs = "missing" => \A n \in DiskNames : d[n] = NoEntry
        /\ d["p2"] = NoEntry
        /\ rootUtf8 \in BOOLEAN
        /\ Start(rs, d)

\* The roots the mutating operations are run over: empty; holding a project;
\* holding a directory whose sidecar does not parse and a plain file; holding
\* a project and one under a name that is not UTF-8. The root holding one
\* project is also taken under a path that is not UTF-8.
Disk(p0, p1, raw) == [n \in DiskNames |-> IF n = "p0" THEN p0
                                          ELSE IF n = "p1" THEN p1
                                          ELSE IF n = RawName THEN raw
                                          ELSE NoEntry]
OneProjectDisk == Disk(DirEntry(ValidSidecar(0, 0, {"t1"})), NoEntry, NoEntry)
InitDisks ==
    {Disk(NoEntry, NoEntry, NoEntry),
     OneProjectDisk,
     Disk(DirEntry(BadSidecar("garbage")), OtherEntry("file"), NoEntry),
     Disk(DirEntry(ValidSidecar(NoTime, NoTime, {"t0"})), NoEntry,
          DirEntry(ValidSidecar(0, 0, {"t1"})))}

Init ==
    \E rs \in {"missing", "ok"}, d \in InitDisks :
        /\ rs = "missing" => \A n \in DiskNames : d[n] = NoEntry
        /\ rootUtf8 \in BOOLEAN
        /\ ~rootUtf8 => (rs = "ok" /\ d = OneProjectDisk)
        /\ Start(rs, d)

\* ---------------------------------------------------------- filesystem
\* path.is_dir() and path.exists() of root/n
IsDirNever(rs, d, n) == FALSE
IsDir(rs, d, n) == rs # "missing" /\ d[n].kind = "dir"
Exists(rs, d, n) == rs # "missing" /\ d[n].kind # "none"

\* new_path.exists() in rename
DestinationFree(rs, d, dst) == FALSE
DestinationTaken(rs, d, dst) == Exists(rs, d, dst)

\* fs::rename(root/src, root/dst): the entry moves with all it holds.
RenameDirNowhere(d, src, dst) == d
RenameDirCopied(d, src, dst) == [d EXCEPT ![dst] = d[src]]
RenameDir(d, src, dst) == [d EXCEPT ![dst] = d[src], ![src] = NoEntry]

\* OpenOptions::new().append(true).create(true).open(dir/.gitignore) and
\* writeln!(file, PROJECT_FILE).  gi: "ok", "open_fail", "write_fail".
AppendGitignore(e, gi) ==
    LET lines == IF e.gitignore < 0 THEN 0 ELSE e.gitignore
    IN  IF gi = "open_fail" THEN e
        ELSE IF gi = "write_fail" THEN [e EXCEPT !.gitignore = lines]
        ELSE [e EXCEPT !.gitignore = lines + 1]

\* ------------------------------------------------------- Project, codec
\* get_mut_project(name).is_ok()
HasProjectNever(projs, name) == FALSE
HasProject(projs, name) == \E i \in 1..Len(projs) : projs[i].name = name

\* the index iter_mut().find(|p| p.name == name) stops at
FindIndex(projs, name) ==
    CHOOSE i \in 1..Len(projs) :
        /\ projs[i].name = name
        /\ \A j \in 1..(i - 1) : projs[j].name # name

\* Project::rename and Project::modify
ProjectRename(p, name) == [p EXCEPT !.name = name]
ProjectModifyMerged(p, new_tags) == [p EXCEPT !.tags = @ \cup new_tags]
ProjectModify(p, new_tags) == [p EXCEPT !.tags = new_tags]

\* The collection when fs::rename has failed for the project at index i:
\* rename returns before Project::rename is called.
MoveFailedRenamed(projs, i, dst) == [projs EXCEPT ![i] = ProjectRename(@, dst)]
MoveFailed(projs, i, dst) == projs

\* Project::save_data, the in-memory half: accessed is reset to now.
Touch(p, now) == [p EXCEPT !.accessed = now]

\* The ProjectData that save_data builds from p, as it reads back from JSON.
SidecarOf(p) ==
    ValidSidecar(TimeFormat(p.created), TimeFormat(p.accessed), p.tags)

\* ProjectData::save into directory entry e.  wr: "ok", "open_fail" (the file
\* is not opened: nothing changes), "write_fail" (the file is created or
\* truncated, the content is not written).  Writing fails when e is not a
\* directory.
SaveOk(e, wr) == e.kind = "dir" /\ wr = "ok"
WriteSidecar(e, p, wr) ==
    IF e.kind # "dir" \/ wr = "open_fail" THEN e
    ELSE IF wr = "write_fail" THEN [e EXCEPT !.sidecar = BadSidecar("garbage")]
    ELSE [e EXCEPT !.sidecar = SidecarOf(p)]

\* The outcomes the environment may give a file write, and how many of the
\* filesystem calls in fs failed.
Outcomes == {"ok", "open_fail", "write_fail"}
Failed(fs) == Cardinality({i \in DOMAIN fs : fs[i] # "ok"})
Steps == {0, ClockStep}

\* ------------------------------------------------------------- listing
SortOrders == {"Creation", "AccessTime", "Name"}

\* String order on the names of the model.
NameOrder == <<"p0", "p1", "p2", "raw">>
NameRank(n) == CHOOSE i \in 1..Len(NameOrder) : NameOrder[i] = n

\* a's sort key is less than b's: Reverse(created), Reverse(accessed), name
KeyLessAscending(order, a, b) ==
    IF order = "Creation" THEN a.created < b.created
    ELSE IF order = "AccessTime" THEN a.accessed < b.accessed
    ELSE NameRank(a.name) < NameRank(b.name)
KeyLess(order, a, b) ==
    IF order = "Creation" THEN a.created > b.created
    ELSE IF order = "AccessTime" THEN a.accessed > b.accessed
    ELSE NameRank(a.name) < NameRank(b.name)

\* sort_by_key is a stable sort: p goes in front of the first element whose
\* key is greater than its own, behind the elements of equal key.
RECURSIVE InsertSorted(_, _, _)
InsertSorted(sorted, p, order) ==
    IF sorted = <<>> THEN <<p>>
    ELSE IF KeyLess(order, p, Head(sorted)) THEN <<p>> \o sorted
    ELSE <<Head(sorted)>> \o InsertSorted(Tail(sorted), p, order)

RECURSIVE StableSort(_, _)
StableSort(projs, order) ==
    IF projs = <<>> THEN <<>>
    ELSE InsertSorted(StableSort(SubSeq(projs, 1, Len(projs) - 1), order),
                      projs[Len(projs)], order)

\* ProjectManager::get_projects
GetProjectsUnsorted(projs, order) == projs
GetProjects(projs, order) == StableSort(projs, order)

List(order) ==
    /\ phase = "ready"
    /\ listed' = GetProjects(projects, order)
    /\ res' = Result("list", order, "", {}, "Ok", "", FALSE)
    /\ UNCHANGED <<rootState, disk, clock, phase, projects, tags, errors, calls,
                   faults, clean, rootUtf8, events>>

\* -------------------------------------------------------------- tag index
\* self.tags.extend(tags)
ExtendTagsReplaced(index, tgs) == tgs
ExtendTags(index, tgs) == index \cup tgs

\* ProjectManager::insert_tag
InsertTag(tag) ==
    /\ phase = "ready"
    /\ calls < MaxCalls
    /\ tags' = tags \cup {tag}
    /\ res' = Result("insert_tag", tag, "", {}, "Ok", "", FALSE)
    /\ calls' = calls + 1
    /\ UNCHANGED <<rootState, disk, clock, phase, projects, errors, faults,
                   clean, rootUtf8, listed, events>>

\* ----------------------------------------------------------------- create
\* A call that returns Err before it has changed anything.
Reject(op, name, dst, tgs, status, stage, fault) ==
    /\ res' = Result(op, name, dst, tgs, status, stage, fault)
    /\ faults' = IF fault THEN faults + 1 ELSE faults
    /\ UNCHANGED <<rootState, disk, clock, phase, projects, tags, errors, calls,
                   clean>>

\* create goes on to push the project iff the sidecar was written: what the
\* .gitignore step returned is printed and dropped.
CreateSavedPropagating(e, gi, wr) == gi = "ok" /\ SaveOk(e, wr)
CreateSaved(e, gi, wr) == SaveOk(e, wr)

\* create from the .gitignore step on, in the directory entry e0 of the new
\* project: the entry, the collection, the tag index and the result it leaves.
CreateResult(projs, index, e0, name, tgs, gi, wr, time, now) ==
    LET e1 == AppendGitignore(e0, gi)
        project == Touch(Project(name, time, time, tgs), now)
        ok == CreateSaved(e1, gi, wr)
    IN  [entry |-> WriteSidecar(e1, project, wr),
         tags |-> ExtendTags(index, tgs),
         projects |-> IF ok THEN Append(projs, project) ELSE projs,
         status |-> IF ok THEN "Ok" ELSE "ProjectWrite"]

Create(name, tgs) ==
    /\ phase = "ready"
    /\ calls < MaxCalls
    /\ UNCHANGED <<rootUtf8, listed, events>>
    /\ IF HasProject(projects, name)
       THEN Reject("create", name, "", tgs, "ProjectWrite", "exists", FALSE)
       ELSE
        LET isdir == IsDir(rootState, disk, name)
            mustFail == rootState = "missing" \/ disk[name].kind # "none"
        IN  \E mk \in {"ok", "fail"} :
            IF ~isdir /\ (mustFail \/ mk = "fail")
            THEN /\ ~mustFail => faults < MaxFaults
                 /\ Reject("create", name, "", tgs, "DirectoryWrite", "mkdir",
                           ~mustFail)
            ELSE
             \E gi \in Outcomes, wr \in Outcomes, d1 \in Steps, d2 \in Steps :
             LET e0 == IF isdir THEN disk[name] ELSE NewDir(clock)
                 time == clock + d1
                 r == CreateResult(projects, tags, e0, name, tgs, gi, wr,
                                   time, time + d2)
             IN  /\ time + d2 <= MaxTime
                 /\ gi = "ok" => e0.gitignore < MaxGitLines
                 /\ faults + Failed(<<gi, wr>>) <= MaxFaults
                 /\ faults' = faults + Failed(<<gi, wr>>)
                 /\ disk' = [disk EXCEPT ![name] = r.entry]
                 /\ tags' = r.tags
                 /\ clock' = time + d2
                 /\ projects' = r.projects
                 /\ res' = Result("create", name, "", tgs, r.status, "save",
                                  r.status # "Ok")
                 /\ clean' = (clean /\ r.status = "Ok")
                 /\ calls' = calls + 1
                 /\ UNCHANGED <<rootState, phase, errors>>

\* ----------------------------------------------------------------- rename
Rename(src, dst) ==
    /\ phase = "ready"
    /\ calls < MaxCalls
    /\ UNCHANGED <<rootUtf8, listed, events>>
    /\ IF DestinationTaken(rootState, disk, dst)
       THEN Reject("rename", src, dst, {}, "DirectoryWrite", "conflict", FALSE)
       ELSE IF ~HasProject(projects, src)
       THEN Reject("rename", src, dst, {}, "NonExistingProject", "find", FALSE)
       ELSE
        LET mustFail == ~Exists(rootState, disk, src)
        IN  \E mv \in {"ok", "fail"} :
            IF mustFail \/ mv = "fail"
            THEN /\ ~mustFail => faults < MaxFaults
                 /\ projects' = MoveFailed(projects, FindIndex(projects, src), dst)
                 /\ res' = Result("rename", src, dst, {}, "ProjectWrite", "move",
                                  ~mustFail)
                 /\ faults' = IF mustFail THEN faults ELSE faults + 1
                 /\ UNCHANGED <<rootState, disk, clock, phase, tags, errors, calls,
                                clean>>
            ELSE
             \E wr \in Outcomes, d \in Steps :
             LET i == FindIndex(projects, src)
                 moved == RenameDir(disk, src, dst)
                 now == clock + d
                 project == Touch(ProjectRename(projects[i], dst), now)
                 ok == SaveOk(moved[dst], wr)
             IN  /\ now <= MaxTime
                 /\ faults + Failed(<<wr>>) <= MaxFaults
                 /\ faults' = faults + Failed(<<wr>>)
                 /\ disk' = [moved EXCEPT ![dst] = WriteSidecar(@, project, wr)]
                 /\ projects' = [projects EXCEPT ![i] = project]
                 /\ clock' = now
                 /\ res' = Result("rename", src, dst, {},
                                  IF ok THEN "Ok" ELSE "ProjectWrite", "save", ~ok)
                 /\ clean' = (clean /\ ok)
                 /\ calls' = calls + 1
                 /\ UNCHANGED <<rootState, phase, tags, errors>>

\* ----------------------------------------------------------------- modify
Modify(name, tgs) ==
    /\ phase = "ready"
    /\ calls < MaxCalls
    /\ UNCHANGED <<rootUtf8, listed, events>>
    /\ IF ~HasProject(projects, name)
       THEN Reject("modify", name, "", tgs, "NonExistingProject", "find", FALSE)
       ELSE
        \E wr \in Outcomes, d \in Steps :
        LET i == FindIndex(projects, name)
            now == clock + d
            project == Touch(ProjectModify(projects[i], tgs), now)
            e == disk[name]
            ok == rootState # "missing" /\ SaveOk(e, wr)
        IN  /\ now <= MaxTime
            /\ faults + Failed(<<wr>>) <= MaxFaults
            /\ faults' = faults + Failed(<<wr>>)
            /\ disk' = IF rootState = "missing" THEN disk
                       ELSE [disk EXCEPT ![name] = WriteSidecar(e, project, wr)]
            /\ projects' = [projects EXCEPT ![i] = project]
            /\ tags' = IF ok THEN ExtendTags(tags, tgs) ELSE tags
            /\ clock' = now
            /\ res' = Result("modify", name, "", tgs,
                             IF ok THEN "Ok" ELSE "ProjectWrite", "save", ~ok)
            /\ clean' = (clean /\ ok)
            /\ calls' = calls + 1
            /\ UNCHANGED <<rootState, phase, errors>>

\* ------------------------------------------------------------------- exec
\* A command line as cmd.split(' ') sees it: the words between the spaces;
\* the empty string splits into one empty word.
EmptyCommand == <<"">>
Commands == {EmptyCommand, <<"run", "{}">>, <<"nosuch", "{}">>}
Executors == {EmptyCommand, <<"sh", "{}">>}
\* the programs Command::spawn finds
Installed == {"run", "sh"}

\* cmd.replace("{}", path)
ReplacePath(cmd, path) == [i \in 1..Len(cmd) |-> IF cmd[i] = "{}" THEN path ELSE cmd[i]]

\* The steps exec has completed when it leaves at the given stage; the store
\* is released by drop(self), or at the return when exec leaves before it.
ExecTraceSpawnFirst(stage) ==
    IF stage = "find" THEN <<"release">>
    ELSE IF stage = "save" THEN <<"locate", "release">>
    ELSE IF stage = "done" THEN <<"locate", "spawn", "wait", "persist", "release">>
    ELSE <<"locate", "persist", "release">>
ExecTrace(stage) ==
    IF stage = "find" THEN <<"release">>
    ELSE IF stage = "save" THEN <<"locate", "release">>
    ELSE IF stage = "done" THEN <<"locate", "persist", "release", "spawn", "wait">>
    ELSE <<"locate", "persist", "release">>

\* exec takes the manager by value: whatever it returns, the store is gone.
Leave(name, program, status, stage, fault) ==
    /\ phase' = IF status = "panic" THEN "aborted" ELSE "consumed"
    /\ projects' = <<>>
    /\ tags' = {}
    /\ events' = ExecTrace(stage)
    /\ res' = Result("exec", name, program, {}, status, stage, fault)
    /\ calls' = calls + 1

Exec(name, default_executor, cmd) ==
    /\ phase = "ready"
    /\ calls < MaxCalls
    /\ UNCHANGED <<rootState, errors, rootUtf8, listed>>
    /\ IF ~HasProject(projects, name)
       THEN /\ Leave(name, "", "NonExistingProject", "find", FALSE)
            /\ clean' = clean
            /\ UNCHANGED <<disk, clock, faults>>
       ELSE
        \E wr \in Outcomes, d \in Steps :
        LET i == FindIndex(projects, name)
            now == clock + d
            project == Touch(projects[i], now)
            e == disk[name]
            ok == rootState # "missing" /\ SaveOk(e, wr)
            resolved == IF cmd = EmptyCommand THEN default_executor ELSE cmd
            argv == ReplacePath(resolved, name)
        IN  /\ now <= MaxTime
            /\ faults + Failed(<<wr>>) <= MaxFaults
            /\ faults' = faults + Failed(<<wr>>)
            /\ disk' = IF rootState = "missing" THEN disk
                       ELSE [disk EXCEPT ![name] = WriteSidecar(e, project, wr)]
            /\ clock' = now
            /\ clean' = (clean /\ ok)
            /\ IF ~ok
               THEN Leave(name, "", "ProjectWrite", "save", TRUE)
               ELSE IF ~rootUtf8
               THEN Leave(name, "", "DirectoryRead", "path", FALSE)
               ELSE IF argv[1] \notin Installed
               THEN Leave(name, argv[1], "panic", "spawn", FALSE)
               ELSE Leave(name, argv[1], "Ok", "done", FALSE)

Next ==
    \/ Load
    \/ \E tag \in TagUniverse : InsertTag(tag)
    \/ \E name \in Names, dflt \in Executors, cmd \in Commands :
            Exec(name, dflt, cmd)
    \/ \E name \in Names, tgs \in TagSets : Create(name, tgs)
    \/ \E src \in Names, dst \in NewNames : Rename(src, dst)
    \/ \E name \in Names, tgs \in TagSets : Modify(name, tgs)

Spec == Init /\ [][Next]_vars

\* load alone, over any root
SpecLoad == InitLoad /\ [][Load]_vars

\* get_projects alone, over the stores a load can return: up to MaxListed
\* projects of distinct names in any order, each with its own timestamps
MaxListed == 3
ListTimes == {UnixEpoch, ClockStep}
InitList ==
    \E k \in 0..MaxListed :
    \E names \in [1..k -> NewNames], c \in [1..k -> ListTimes],
       a \in [1..k -> ListTimes] :
        /\ \A i, j \in 1..k : i # j => names[i] # names[j]
        /\ rootState = "ok"
        /\ disk = [n \in DiskNames |->
                    IF \E i \in 1..k : names[i] = n
                    THEN LET i == CHOOSE i \in 1..k : names[i] = n
                         IN  DirEntry(ValidSidecar(c[i], a[i], {}))
                    ELSE NoEntry]
        /\ clock = 0
        /\ phase = "ready"
        /\ projects = [i \in 1..k |-> Project(names[i], c[i], a[i], {})]
        /\ tags = {}
        /\ errors = <<>>
        /\ res = Result("load", "", "", {}, "Ok", "", FALSE)
        /\ calls = 0
        /\ faults = 0
        /\ clean = (k = 0)
        /\ rootUtf8 = TRUE
        /\ listed = <<>>
        /\ events = <<>>

NextList == \E order \in SortOrders : List(order)

SpecList == InitList /\ [][NextList]_vars

\* ================================================================ claims
Calls == {"create", "rename", "modify"}

\* C1: in every reachable state no two projects of the in-memory collection
\* have the same name.
C1_NoDuplicateNames ==
    \A i, j \in 1..Len(projects) : i # j => projects[i].name # projects[j].name
\* a rename onto the name of another project of a two-project store was refused
C1_Witness ==
    /\ Len(projects) = 2
    /\ res.op = "rename" /\ res.stage = "conflict"
    /\ res.name \in ProjectNames(projects) /\ res.dst \in ProjectNames(projects)
    /\ res.name # res.dst

\* C2: in every reachable state every project of the in-memory collection has
\* a directory root/<name> on disk that holds a sidecar file.
C2_ProjectsHaveSidecar ==
    \A i \in 1..Len(projects) :
        /\ IsDir(rootState, disk, projects[i].name)
        /\ disk[projects[i].name].sidecar.st # "none"
\* a rename moved the directory and then failed to write the sidecar
C2_Witness ==
    /\ res.op = "rename" /\ res.stage = "save" /\ res.status = "ProjectWrite"
    /\ res.dst \in ProjectNames(projects)

\* C3: in every reachable state the tag index is a superset of the union of
\* the tag sets of the projects in the collection, also after a create or
\* modify that failed at persistence.
C3_TagIndexCoversProjects == UnionTags(projects) \subseteq tags

\* C4: whenever create, rename or modify returns an error, the project list
\* (name, tags, created, accessed of every project) and the tag index are
\* what they were before the call.
C4_FailedCallChangesNothing ==
    [][(res'.op \in Calls /\ res'.status # "Ok")
        => (projects' = projects /\ tags' = tags)]_vars

\* C5: load of a root that does not exist or cannot be read returns a store
\* with no projects, an empty tag index and exactly one error, a DirectoryRead.
C5_LoadOfUnreadableRoot ==
    (res.op = "load" /\ rootState # "ok")
        => /\ phase = "ready"
           /\ projects = <<>>
           /\ tags = {}
           /\ errors = <<"DirectoryRead">>
\* load has returned over an unreadable root that holds a well-formed project
C5_Witness ==
    /\ res.op = "load" /\ rootState = "unreadable" /\ phase = "ready"
    /\ \E n \in Names : disk[n].kind = "dir" /\ disk[n].sidecar.st = "valid"
                        /\ disk[n].listable /\ disk[n].metaOk

\* C6: on a store loaded from a root that does not exist, create (with no
\* filesystem fault from the environment) succeeds: the root and the project
\* directory exist afterwards, the sidecar is written and the project is in
\* the collection.
C6_CreateRecreatesRoot ==
    [][(rootState = "missing" /\ res'.op = "create" /\ ~res'.fault)
        => /\ res'.status = "Ok"
           /\ rootState' = "ok"
           /\ disk'[res'.name].kind = "dir"
           /\ disk'[res'.name].sidecar.st = "valid"
           /\ res'.name \in ProjectNames(projects')]_vars

\* A child of the root that load turns into a project when it gets to it.
ValidProject(n) ==
    /\ Utf8(n)
    /\ disk[n].kind = "dir" /\ disk[n].listable /\ disk[n].metaOk
    /\ disk[n].sidecar.st = "valid"

\* C7: for any contents of the root, load returns a store and an error list,
\* and every valid project under the root is in the returned collection.
C7_LoadNeverAborts ==
    (res.op = "load" /\ rootState = "ok")
        => /\ phase = "ready"
           /\ \A n \in DiskNames : ValidProject(n) => n \in ProjectNames(projects)

\* C8: when load meets a project directory whose sidecar is unreadable or is
\* not valid JSON, that project is not in the returned collection, the tag
\* index holds the tags of the loaded projects only, and every sibling
\* directory with a valid sidecar is loaded with the tags of its sidecar.
SidecarBroken(n) ==
    /\ disk[n].kind = "dir" /\ disk[n].listable
    /\ disk[n].sidecar.st \in {"unreadable", "garbage"}
C8_BrokenSidecarSkipsOnlyItself ==
    (res.op = "load" /\ rootState = "ok" /\ \E n \in DiskNames : SidecarBroken(n))
        => /\ phase = "ready"
           /\ \A n \in DiskNames : SidecarBroken(n) => n \notin ProjectNames(projects)
           /\ tags = UnionTags(projects)
           /\ \A n \in DiskNames :
                (disk[n].kind = "dir" /\ disk[n].sidecar.st = "valid")
                    => \E i \in 1..Len(projects) :
                          /\ projects[i].name = n
                          /\ projects[i].tags = disk[n].sidecar.tags

\* C9: after successful create, rename and modify calls on a store loaded from
\* an empty existing root, load of the root returns no errors, the same set of
\* project names, for each name the same tags and the same created timestamp,
\* and a tag index that is the union of those tag sets.
C9_RoundTrip ==
    clean =>
        \A order \in Orders(disk) :
            LET r == LoadDir(rootState, disk, order)
            IN  /\ ~r.panic
                /\ r.errors = <<>>
                /\ ProjectNames(r.projects) = ProjectNames(projects)
                /\ \A i \in 1..Len(projects), j \in 1..Len(r.projects) :
                      projects[i].name = r.projects[j].name
                          => /\ r.projects[j].tags = projects[i].tags
                             /\ r.projects[j].created = projects[i].created
                /\ r.tags = UnionTags(projects)

\* C10: create with the name of a project already in the collection fails with
\* ProjectWrite and changes nothing: the project list, the tag index and the
\* disk (sidecars and .gitignore files) are as before the call.
C10_DuplicateCreateRejected ==
    [][(res'.op = "create" /\ res'.name \in ProjectNames(projects))
        => /\ res'.status = "ProjectWrite"
           /\ projects' = projects
           /\ tags' = tags
           /\ disk' = disk]_vars
\* a create with the name of a project in the collection has returned
C10_Witness ==
    /\ res.op = "create" /\ res.stage = "exists" /\ res.status = "ProjectWrite"
    /\ res.name \in ProjectNames(projects)
    /\ disk[res.name].gitignore >= 0

\* C11: rename(src, dst) with a file or directory at root/dst fails with
\* DirectoryWrite and changes neither the disk nor the store.
C11_RenameConflict ==
    [][(res'.op = "rename" /\ Exists(rootState, disk, res'.dst))
        => /\ res'.status = "DirectoryWrite"
           /\ disk' = disk
           /\ projects' = projects
           /\ tags' = tags]_vars
\* a rename of a project of the store onto the name of a plain file was refused
C11_Witness ==
    /\ res.op = "rename" /\ res.status = "DirectoryWrite"
    /\ res.name \in ProjectNames(projects)
    /\ disk[res.dst].kind = "file"

\* C12 as stated: rename(src, dst) fails with NonExistingProject whenever no
\* project named src is in the collection, whatever dst is.
C12_UnknownSourceAlwaysNonExisting ==
    [][(res'.op = "rename" /\ res'.name \notin ProjectNames(projects))
        => res'.status = "NonExistingProject"]_vars
\* C12 as amended: when no project named src is in the collection, rename
\* fails with NonExistingProject if nothing exists at root/dst and with
\* DirectoryWrite if something does; the store and the disk are unchanged.
C12_UnknownSource ==
    [][(res'.op = "rename" /\ res'.name \notin ProjectNames(projects))
        => /\ res'.status = IF Exists(rootState, disk, res'.dst)
                            THEN "DirectoryWrite" ELSE "NonExistingProject"
           /\ disk' = disk
           /\ projects' = projects
           /\ tags' = tags]_vars
\* a rename of an unknown name onto a name that exists on disk has returned
C12_Witness ==
    /\ res.op = "rename" /\ res.name \notin ProjectNames(projects)
    /\ res.stage = "conflict"
    /\ projects # <<>>

\* C13: a successful rename(src, dst) moves root/src to root/dst (root/src is
\* gone, root/dst holds the sidecar of the renamed project), names the project
\* dst, and leaves its tags and created, every other project, the number of
\* projects and the tag index unchanged.
C13_RenameMoves ==
    [][(res'.op = "rename" /\ res'.status = "Ok")
        => /\ disk'[res'.name].kind = "none"
           /\ disk'[res'.dst].kind = "dir"
           /\ Len(projects') = Len(projects)
           /\ tags' = tags
           /\ \E i \in 1..Len(projects) :
                /\ projects[i].name = res'.name
                /\ projects'[i].name = res'.dst
                /\ projects'[i].tags = projects[i].tags
                /\ projects'[i].created = projects[i].created
                /\ disk'[res'.dst].sidecar = SidecarOf(projects'[i])
                /\ \A j \in 1..Len(projects) : j # i => projects'[j] = projects[j]]_vars
\* a project of a two-project store has been renamed
C13_Witness ==
    /\ res.op = "rename" /\ res.status = "Ok"
    /\ Len(projects) = 2
    /\ res.dst \in ProjectNames(projects)

\* C14: when the filesystem rename fails, rename returns ProjectWrite and the
\* store (name and accessed of the project included) and the disk are
\* unchanged.
C14_FailedMoveChangesNothing ==
    [][(res'.op = "rename" /\ res'.stage = "move")
        => /\ res'.status = "ProjectWrite"
           /\ projects' = projects
           /\ tags' = tags
           /\ disk' = disk]_vars
\* fs::rename has failed for a project of the store
C14_Witness ==
    /\ res.op = "rename" /\ res.stage = "move" /\ res.fault
    /\ res.name \in ProjectNames(projects)

\* C15: modify on a name that is not in the collection fails with
\* NonExistingProject; a successful modify makes the project's tag set exactly
\* the new tags, the tag index the old index united with the new tags, and the
\* sidecar's tags the new tags.
C15_Modify ==
    [][res'.op = "modify"
        => IF res'.name \notin ProjectNames(projects)
           THEN res'.status = "NonExistingProject"
           ELSE res'.status = "Ok"
                => /\ tags' = tags \cup res'.tgs
                   /\ disk'[res'.name].sidecar.st = "valid"
                   /\ disk'[res'.name].sidecar.tags = res'.tgs
                   /\ \A i \in 1..Len(projects') :
                        projects'[i].name = res'.name
                            => projects'[i].tags = res'.tgs]_vars
\* a project tagged t1 has been retagged t0
C15_Witness ==
    /\ res.op = "modify" /\ res.status = "Ok" /\ res.tgs = {"t0"}
    /\ "t1" \in tags
    /\ \E i \in 1..Len(projects) :
            projects[i].name = res.name /\ projects[i].tags = {"t0"}

\* The project the last create, rename or modify was about, by its name now.
Touched == IF res.op = "rename" THEN res.dst ELSE res.name
TouchedProject == projects[FindIndex(projects, Touched)]

\* C16 as stated: after a successful create, rename or modify the project it
\* was about is the first element of list(AccessTime), whatever the other
\* projects and however closely in time the calls follow each other.
C16_TouchedListedFirst ==
    (phase = "ready" /\ res.op \in Calls /\ res.status = "Ok")
        => Head(GetProjects(projects, "AccessTime")).name = Touched
\* C16 as amended: it is the first element of list(AccessTime) provided its
\* refreshed accessed timestamp is later than that of every other project.
C16_TouchedListedFirstIfLater ==
    (/\ phase = "ready" /\ res.op \in Calls /\ res.status = "Ok"
     /\ \A i \in 1..Len(projects) :
            projects[i].name # Touched
                => projects[i].accessed < TouchedProject.accessed)
        => Head(GetProjects(projects, "AccessTime")).name = Touched
\* a project created after another one, at a later time, is listed first
C16_Witness ==
    /\ res.op = "create" /\ res.status = "Ok"
    /\ Len(projects) = 2
    /\ projects[2].name = res.name
    /\ projects[1].accessed < projects[2].accessed
    /\ Head(GetProjects(projects, "AccessTime")).name = res.name

\* C17: list(order) returns a permutation of the store's projects sorted by
\* created descending (Creation), accessed descending (AccessTime) or name
\* ascending (Name), projects of equal key in insertion order, and leaves the
\* collection and the tag index unchanged.
SortKey(order, p) ==
    IF order = "Creation" THEN 0 - p.created
    ELSE IF order = "AccessTime" THEN 0 - p.accessed
    ELSE NameRank(p.name)
C17_ListSortedStable ==
    [][res'.op = "list" =>
        /\ projects' = projects
        /\ tags' = tags
        /\ Len(listed') = Len(projects)
        /\ \A i \in 1..Len(projects) :
               \E j \in 1..Len(listed') : listed'[j] = projects[i]
        /\ \A i, j \in 1..Len(listed') :
               i < j =>
                 \/ SortKey(res'.name, listed'[i]) < SortKey(res'.name, listed'[j])
                 \/ /\ SortKey(res'.name, listed'[i]) = SortKey(res'.name, listed'[j])
                    /\ FindIndex(projects, listed'[i].name)
                         < FindIndex(projects, listed'[j].name)]_vars
\* three projects listed by AccessTime: the order changed and a tie was kept
C17_Witness ==
    /\ res.op = "list" /\ res.name = "AccessTime"
    /\ Len(listed) = 3
    /\ listed # projects
    /\ listed[1].accessed = listed[2].accessed
    /\ listed[2].accessed > listed[3].accessed

\* position of a step in the steps exec completed, 0 if it did not happen
StepAt(evs, step) ==
    IF \E i \in 1..Len(evs) : evs[i] = step
    THEN CHOOSE i \in 1..Len(evs) : evs[i] = step
    ELSE 0

\* C18: exec goes locate, persist, release, spawn. With no project of the
\* name it returns NonExistingProject having written and spawned nothing; if
\* the sidecar write fails it returns that error without spawning; otherwise
\* the sidecar, with the refreshed accessed, is written and the store is
\* released before the child is spawned; and no store operation follows exec.
C18_ExecOrder ==
    [][/\ res'.op = "exec" =>
            /\ phase = "ready" /\ phase' # "ready"
            /\ projects' = <<>> /\ tags' = {}
            /\ res'.name \notin ProjectNames(projects)
                   <=> res'.status = "NonExistingProject"
            /\ res'.status = "NonExistingProject" =>
                   /\ disk' = disk
                   /\ StepAt(events', "persist") = 0
                   /\ StepAt(events', "spawn") = 0
            /\ res'.status = "ProjectWrite" =>
                   /\ StepAt(events', "persist") = 0
                   /\ StepAt(events', "spawn") = 0
            /\ StepAt(events', "spawn") # 0 =>
                   /\ 0 < StepAt(events', "locate")
                   /\ StepAt(events', "locate") < StepAt(events', "persist")
                   /\ StepAt(events', "persist") < StepAt(events', "release")
                   /\ StepAt(events', "release") < StepAt(events', "spawn")
                   /\ disk'[res'.name].kind = "dir"
                   /\ disk'[res'.name].sidecar.st = "valid"
                   /\ disk'[res'.name].sidecar.accessed = TimeFormat(clock')
       /\ phase \in {"consumed", "aborted"} => res'.op = "load"]_vars
\* exec spawned a child for a project after its sidecar was rewritten at a
\* later time than the one it held
C18_Witness ==
    /\ res.op = "exec" /\ res.status = "Ok"
    /\ phase = "consumed"
    /\ StepAt(events, "spawn") = 4
    /\ clock = ClockStep
    /\ disk[res.name].sidecar.accessed = TimeFormat(ClockStep)

\* C19: create, rename, modify and exec return Ok or a typed ProjectError for
\* every input, an exec whose resolved command is empty or names a program
\* that cannot be spawned included; none of them panics.
C19_NoPanic ==
    res.op \in {"create", "rename", "modify", "exec"} => res.status # "panic"

\* C20: the tag index only grows: no create, rename, modify or insert_tag
\* call, successful or failing, removes a tag that was in the index before
\* it; a tag stays in the index after the last project using it is retagged.
C20_TagIndexGrows ==
    [][res'.op \in Calls \cup {"insert_tag"} => tags \subseteq tags']_vars
\* a modify took the last tag off the projects and the index still has one
C20_Witness ==
    /\ res.op = "modify" /\ res.status = "Ok" /\ res.tgs = {}
    /\ phase = "ready"
    /\ UnionTags(projects) = {}
    /\ tags # {}

\* The directory the sidecar of the last rename, modify or exec is written to,
\* and that call has written a sidecar.
SavedAt(r) == IF r.op = "rename" THEN r.dst ELSE r.name
Saved(r, evs, d) ==
    /\ r.op \in {"rename", "modify", "exec"}
    /\ r.status = "Ok" \/ (r.op = "exec" /\ StepAt(evs, "persist") # 0)
    /\ d[SavedAt(r)].sidecar.st = "valid"

\* C21: the created timestamp of a project never changes after the project
\* has entered the collection: every call but load leaves it, for every
\* project that stays in the collection, what it was, and the sidecar that
\* rename, modify or exec writes for a project holds that same value.
C21_CreatedNeverChanges ==
    [][res'.op # "load" =>
        /\ \A i \in 1..Len(projects) :
               i <= Len(projects') => projects'[i].created = projects[i].created
        /\ Saved(res', events', disk') =>
               disk'[SavedAt(res')].sidecar.created
                   = projects[FindIndex(projects, res'.name)].created]_vars

\* C22: right after a successful create the new project's created and
\* accessed timestamps are equal, in memory and in the sidecar on disk.
C22_CreatedEqualsAccessed ==
    (res.op = "create" /\ res.status = "Ok") =>
        /\ TouchedProject.created = TouchedProject.accessed
        /\ disk[res.name].sidecar.created = disk[res.name].sidecar.accessed

\* C23: a failure to open or to append to .gitignore does not change the
\* outcome of create: from every store and disk a run can call create on, for
\* every name, tag set, clock reading and outcome of the sidecar write, create
\* returns the same result and leaves the same collection, tag index and
\* sidecar whatever the .gitignore step does.
C23_GitignoreBestEffort ==
    phase = "ready" /\ calls < MaxCalls /\ rootState # "missing" =>
        \A name \in Names \ ProjectNames(projects) :
            IsDir(rootState, disk, name) \/ ~Exists(rootState, disk, name) =>
                LET e0 == IF IsDir(rootState, disk, name)
                          THEN disk[name] ELSE NewDir(clock)
                IN  \A tgs \in TagSets, wr \in Outcomes, d1 \in Steps, d2 \in Steps :
                    LET passing == CreateResult(projects, tags, e0, name, tgs,
                                       "ok", wr, clock + d1, clock + d1 + d2)
                    IN  \A gi \in Outcomes \ {"ok"} :
                        LET failing == CreateResult(projects, tags, e0, name, tgs,
                                           gi, wr, clock + d1, clock + d1 + d2)
                        IN  [failing EXCEPT !.entry = @.sidecar]
                                = [passing EXCEPT !.entry = @.sidecar]
\* a create returned Ok though .gitignore could not be opened
C23_Witness ==
    /\ res.op = "create" /\ res.status = "Ok"
    /\ res.name \in ProjectNames(projects)
    /\ disk[res.name].gitignore < 0
    /\ disk[res.name].sidecar.st = "valid"

\* A child that is no project candidate: a plain file, or a directory that
\* was enumerated and holds no entry named like the sidecar.
NoCandidate(e) ==
    \/ e.kind = "file"
    \/ e.kind = "dir" /\ e.listable /\ e.sidecar.st = "none"
\* the root without the children that are no candidates
Candidates(d) == [n \in DiskNames |-> IF NoCandidate(d[n]) THEN NoEntry ELSE d[n]]

\* C24: load takes a child of the root for a project only if it is a
\* directory holding an entry named like the sidecar; plain files and
\* directories without a sidecar give neither a project nor an error (load
\* does what it does on the root without them); an empty existing root gives
\* no projects, an empty tag index and no errors; and after every load the
\* tag index is the union of the tag sets of the loaded projects.
C24_LoadCandidates ==
    [][res'.op = "load" =>
        /\ \A i \in 1..Len(projects') :
               /\ disk[projects'[i].name].kind = "dir"
               /\ disk[projects'[i].name].sidecar.st = "valid"
        /\ \E order \in Orders(Candidates(disk)) :
               LET r == LoadDir(rootState, Candidates(disk), order)
               IN  /\ r.panic <=> res'.status = "panic"
                   /\ ~r.panic => /\ projects' = r.projects
                                  /\ tags' = r.tags
                                  /\ errors' = r.errors
        /\ RootEmpty => /\ res'.status = "Ok"
                        /\ projects' = <<>> /\ tags' = {} /\ errors' = <<>>
        /\ tags' = UnionTags(projects')]_vars
\* a load over a plain file, a directory without a sidecar and one project
C24_Witness ==
    /\ res.op = "load" /\ res.status = "Ok"
    /\ \E n \in DiskNames : disk[n].kind = "file"
    /\ \E n \in DiskNames : disk[n].kind = "dir" /\ NoCandidate(disk[n])
    /\ Len(projects) = 1
    /\ errors = <<>>
    /\ tags = projects[1].tags /\ tags # {}

\* C25: create of a name that is not in the collection while its directory
\* exists under the root does not fail on the directory: it goes on to the
\* sidecar write in that directory and fails only if the environment fails
\* that write; when it returns Ok the sidecar, whatever it was, holds exactly
\* the given tags and the project is the new last element of the collection.
C25_CreateReusesDirectory ==
    [][(/\ res'.op = "create"
        /\ res'.name \notin ProjectNames(projects)
        /\ rootState # "missing"
        /\ disk[res'.name].kind = "dir")
       => /\ res'.stage = "save"
          /\ res'.status \in {"Ok", "ProjectWrite"}
          /\ disk'[res'.name].kind = "dir"
          /\ disk'[res'.name].btime = disk[res'.name].btime
          /\ \A n \in DiskNames : n # res'.name => disk'[n] = disk[n]
          /\ res'.status = "ProjectWrite" =>
                /\ faults' > faults
                /\ projects' = projects
                /\ disk'[res'.name].sidecar
                       \in {disk[res'.name].sidecar, BadSidecar("garbage")}
          /\ res'.status = "Ok" =>
                /\ disk'[res'.name].sidecar.st = "valid"
                /\ disk'[res'.name].sidecar.tags = res'.tgs
                /\ Len(projects') = Len(projects) + 1
                /\ SubSeq(projects', 1, Len(projects)) = projects
                /\ projects'[Len(projects')].name = res'.name
                /\ projects'[Len(projects')].tags = res'.tgs]_vars
\* the root held p0 with a sidecar that does not parse beside a plain file;
\* load skipped it with an error and create("p0") replaced the sidecar
C25_Witness ==
    /\ res.op = "create" /\ res.name = "p0" /\ res.status = "Ok"
    /\ errors = <<"ProjectRead">>
    /\ disk["p1"].kind = "file"
    /\ disk["p0"].sidecar.st = "valid"
    /\ disk["p0"].sidecar.tags = res.tgs
    /\ projects[Len(projects)].name = "p0"
====
